---- MODULE Spec2Model ----
\* Model of the authentication core of the MVP backend:
\*   app/core/security.py  (password hashing, JWT issuance)
\*   scripts/seed_admin.py (idempotent admin seeding)
EXTENDS Integers, Sequences, FiniteSets, TLC

VARIABLES
    settings,   \* app.core.config.settings, the process-wide signing configuration
    calls,      \* history: the token-issuing calls made so far, with their outcome
    hashLog,    \* history: the hash_password calls made so far
    verifyLog,  \* history: the verify_password calls made so far
    pc,         \* per thread: the line its call in flight is at
    frame,      \* per thread: the arguments, locals and result of its call
    DATABASE_URL,   \* seed_admin: the environment's database URL
    db,         \* the committed rows of the users table
    seed,       \* seed_admin.main: its position, locals, session and engine
    runLog      \* history: the outcome of every finished run of main

vars == <<settings, calls, hashLog, verifyLog, pc, frame,
          DATABASE_URL, db, seed, runLog>>
seedVars == <<DATABASE_URL, db, seed, runLog>>
tokenVars == <<calls>>
passwordVars == <<hashLog, verifyLog>>
threadVars == <<pc, frame>>

-----------------------------------------------------------------------------
\* Bounds of the model.

\* Sub-second resolution of the clock: a datetime is a number of ticks.
TicksPerSec == 2
\* Clock readings range over 0..MaxNow ticks.
MaxNow == 1
\* settings.ACCESS_TOKEN_MINUTES ranges over 1..MaxMinutes.
MaxMinutes == 2
\* settings.REFRESH_TOKEN_DAYS ranges over 1..MaxDays.
MaxDays == 1
\* Number of token-issuing calls kept in the history.
MaxTokenCalls == 2
\* Number of hash_password / verify_password calls kept in the history.
MaxPasswordCalls == 3
\* The random source yields salts in 1..NumSalts.
NumSalts == 2
\* Number of runs of seed_admin.main.
MaxRuns == 3

-----------------------------------------------------------------------------
\* Input domains.

Subjects == {"u1", "u2"}
\* token_type is a plain str: any runtime string is accepted.
TokenTypes == {"access", "refresh", "admin"}
\* expires_delta arguments, in ticks: negative, zero, sub-second, one second.
Deltas == {-TicksPerSec, 0, 1, TicksPerSec}
\* datetime.now(timezone.utc) readings, in ticks.
Nows == 0..MaxNow

Passwords == {"admin123456", "correct horse"}
Salts == 1..NumSalts

\* Request-handling threads calling into the security module.
Threads == {"t1", "t2"}

\* A missing secret key (None).
NoKey == "<None>"
SecretKeys == {NoKey, "", "s3cr3t"}

\* The values the signing configuration can take.
SettingsDomain ==
    [JWT_SECRET_KEY : SecretKeys,
     JWT_ALG : {"HS256"},
     ACCESS_TOKEN_MINUTES : 1..MaxMinutes,
     REFRESH_TOKEN_DAYS : 1..MaxDays]

-----------------------------------------------------------------------------
\* datetime / timedelta arithmetic.

timedelta_minutes(m) == m * 60 * TicksPerSec
timedelta_days(d) == d * 86400 * TicksPerSec

\* int(now.timestamp()): whole seconds of a non-negative instant.
int_timestamp(dt) == dt \div TicksPerSec

\* jose converts a datetime claim with timegm(dt.utctimetuple()): the
\* microseconds are dropped, i.e. the instant is floored to whole seconds.
timegm_utctimetuple(dt) == dt \div TicksPerSec

-----------------------------------------------------------------------------
\* jose.jwt.encode / decode.

NoToken == <<>>

\* HMAC over the signing input, as an ideal MAC: the tag determines its inputs.
HMACSign(key, header, payload) == <<"HMAC-SHA256", key, header, payload>>

\* The serialised claims: key/value pairs in insertion order.
SerialiseClaims(payload) ==
    << <<"sub", payload.sub>>, <<"type", payload.type>>,
       <<"iat", payload.iat>>, <<"exp", timegm_utctimetuple(payload.exp)>> >>

\* jwt.encode(payload, key, algorithm): a None key is refused by the key
\* constructor (JWSError, re-raised as JWTError); any str key, the empty
\* string included, signs.
jwt_encode(payload, key, algorithm) ==
    IF key = NoKey
    THEN [raised |-> "JWTError", token |-> NoToken]
    ELSE LET header == << <<"alg", algorithm>>, <<"typ", "JWT">> >>
             body   == SerialiseClaims(payload)
         IN  [raised |-> "none",
              token  |-> <<header, body, HMACSign(key, header, body)>>]

\* The value stored under key k in a serialised segment.
Claim(segment, k) ==
    segment[CHOOSE i \in 1..Len(segment) : segment[i][1] = k][2]

NoClaims == [sub |-> "", type |-> "", iat |-> 0, exp |-> 0]

\* Decoding: check the algorithm and the signature, then read the claims back.
jwt_decode(token, key, algorithm) ==
    IF \/ Len(token) # 3
       \/ key = NoKey
       \/ Claim(token[1], "alg") # algorithm
       \/ token[3] # HMACSign(key, token[1], token[2])
    THEN [raised |-> "JWTError", claims |-> NoClaims]
    ELSE [raised |-> "none",
          claims |-> [sub  |-> Claim(token[2], "sub"),
                      type |-> Claim(token[2], "type"),
                      iat  |-> Claim(token[2], "iat"),
                      exp  |-> Claim(token[2], "exp")]]

-----------------------------------------------------------------------------
\* app/core/security.py: token issuance.

\* Mutant: iat rounded to the nearest second instead of truncated.
create_token_iat_rounded(sub, token_type, expires_delta, now) ==
    LET payload == [sub  |-> sub,
                    type |-> token_type,
                    iat  |-> (2 * now + TicksPerSec) \div (2 * TicksPerSec),
                    exp  |-> now + expires_delta]
    IN  jwt_encode(payload, settings.JWT_SECRET_KEY, settings.JWT_ALG)

\* Mutant: the type claim is hard-wired instead of taken from the argument.
create_token_fixed_type(sub, token_type, expires_delta, now) ==
    LET payload == [sub  |-> sub,
                    type |-> "access",
                    iat  |-> int_timestamp(now),
                    exp  |-> now + expires_delta]
    IN  jwt_encode(payload, settings.JWT_SECRET_KEY, settings.JWT_ALG)

\* create_token(sub, token_type, expires_delta), reading the clock at `now`.
create_token(sub, token_type, expires_delta, now) ==
    LET payload == [sub  |-> sub,
                    type |-> token_type,
                    iat  |-> int_timestamp(now),
                    exp  |-> now + expires_delta]
    IN  jwt_encode(payload, settings.JWT_SECRET_KEY, settings.JWT_ALG)

AccessDelta == timedelta_minutes(settings.ACCESS_TOKEN_MINUTES)
RefreshDelta == timedelta_days(settings.REFRESH_TOKEN_DAYS)

create_access_token(sub, now) ==
    create_token(sub, "access", AccessDelta, now)

\* Mutant: the refresh wrapper issues with the access lifetime.
create_refresh_token_access_delta(sub, now) ==
    create_token(sub, "refresh", AccessDelta, now)

create_refresh_token(sub, now) ==
    create_token(sub, "refresh", RefreshDelta, now)

-----------------------------------------------------------------------------
\* app/core/security.py: password hashing (passlib CryptContext, argon2).

\* The argon2 digest of a password under a salt, as an ideal key-derivation
\* function: distinct (password, salt) inputs give distinct digests.
argon2_digest(password, salt) == <<"digest", password, salt>>

\* A stored string that is no argon2 hash.
MalformedHash == <<"plaintext">>

\* pwd_context.hash(password) with the salt the random source yielded: the
\* self-describing string "$argon2id$...$salt$digest".
hash_password(password, salt) ==
    <<"argon2id", salt, argon2_digest(password, salt)>>

\* Mutant: the digest is recomputed under a fixed salt, not the embedded one.
verify_password_fixed_salt(password, hashed) ==
    IF Len(hashed) # 3 \/ hashed[1] # "argon2id"
    THEN [raised |-> "UnknownHashError", value |-> FALSE]
    ELSE [raised |-> "none",
          value  |-> argon2_digest(password, 1) = hashed[3]]

\* Mutant: a digest mismatch is reported as an error.
verify_password_mismatch_raises(password, hashed) ==
    IF Len(hashed) # 3 \/ hashed[1] # "argon2id"
    THEN [raised |-> "UnknownHashError", value |-> FALSE]
    ELSE IF argon2_digest(password, hashed[2]) = hashed[3]
         THEN [raised |-> "none", value |-> TRUE]
         ELSE [raised |-> "ValueError", value |-> FALSE]

\* pwd_context.verify(password, hashed): identify the scheme (a string of no
\* configured scheme raises UnknownHashError), recompute the digest with the
\* embedded salt and compare.
verify_password(password, hashed) ==
    IF Len(hashed) # 3 \/ hashed[1] # "argon2id"
    THEN [raised |-> "UnknownHashError", value |-> FALSE]
    ELSE [raised |-> "none",
          value  |-> argon2_digest(password, hashed[2]) = hashed[3]]

-----------------------------------------------------------------------------
\* The sequential token-issuing specification.

CallRecord(op, sub, token_type, expires_delta, now, res) ==
    [op |-> op, sub |-> sub, token_type |-> token_type,
     expires_delta |-> expires_delta, now |-> now,
     raised |-> res.raised, token |-> res.token]

NoPayload == [sub |-> "", type |-> "", iat |-> 0, exp |-> 0]

\* The frame of a thread that has made no call.
NoFrame ==
    [op |-> "", sub |-> "", token_type |-> "", expires_delta |-> 0, now |-> 0,
     payload |-> NoPayload, password |-> "", hashed |-> <<>>, salt |-> 0,
     raised |-> "none", token |-> NoToken, value |-> FALSE]

\* A missing DATABASE_URL (None).
NoUrl == "<None>"
ADMIN_EMAIL == "admin@local.com"
ADMIN_PASSWORD == "admin123456"

\* main's locals before a run: no engine, no session, nothing pending.
SeedIdle ==
    [pc |-> "idle", engine |-> "none", exists |-> FALSE, pending |-> {},
     adds |-> 0, commits |-> 0]

\* The state of the histories and threads before any call.
NoCalls ==
    /\ calls = {}
    /\ hashLog = {}
    /\ verifyLog = {}
    /\ pc = [t \in Threads |-> "idle"]
    /\ frame = [t \in Threads |-> NoFrame]

Init ==
    /\ settings \in SettingsDomain
    /\ NoCalls
    /\ DATABASE_URL = NoUrl
    /\ db = {}
    /\ seed = SeedIdle
    /\ runLog = <<>>

CallCreateToken ==
    /\ Cardinality(calls) < MaxTokenCalls
    /\ \E sub \in Subjects, tt \in TokenTypes, d \in Deltas, now \in Nows :
         calls' = calls \cup
            {CallRecord("create_token", sub, tt, d, now,
                        create_token(sub, tt, d, now))}
    /\ UNCHANGED <<settings, passwordVars, threadVars, seedVars>>

CallCreateAccessToken ==
    /\ Cardinality(calls) < MaxTokenCalls
    /\ \E sub \in Subjects, now \in Nows :
         calls' = calls \cup
            {CallRecord("create_access_token", sub, "access", AccessDelta, now,
                        create_access_token(sub, now))}
    /\ UNCHANGED <<settings, passwordVars, threadVars, seedVars>>

CallCreateRefreshToken ==
    /\ Cardinality(calls) < MaxTokenCalls
    /\ \E sub \in Subjects, now \in Nows :
         calls' = calls \cup
            {CallRecord("create_refresh_token", sub, "refresh", RefreshDelta, now,
                        create_refresh_token(sub, now))}
    /\ UNCHANGED <<settings, passwordVars, threadVars, seedVars>>

Next ==
    \/ CallCreateToken
    \/ CallCreateAccessToken
    \/ CallCreateRefreshToken

Spec == Init /\ [][Next]_vars

-----------------------------------------------------------------------------
\* The sequential password specification.

PasswordCallsMade == Cardinality(hashLog) + Cardinality(verifyLog)

\* The hash strings a caller can hold: those returned so far, or a stored
\* string that is no hash.
KnownHashes == {h.hashed : h \in hashLog} \cup {MalformedHash}

CallHashPassword ==
    /\ PasswordCallsMade < MaxPasswordCalls
    /\ \E password \in Passwords, salt \in Salts :
         hashLog' = hashLog \cup
            {[password |-> password, salt |-> salt,
              hashed |-> hash_password(password, salt)]}
    /\ UNCHANGED <<settings, tokenVars, verifyLog, threadVars, seedVars>>

CallVerifyPassword ==
    /\ PasswordCallsMade < MaxPasswordCalls
    /\ \E password \in Passwords, hashed \in KnownHashes :
         LET res == verify_password(password, hashed)
         IN  verifyLog' = verifyLog \cup
                {[password |-> password, hashed |-> hashed,
                  raised |-> res.raised, value |-> res.value]}
    /\ UNCHANGED <<settings, tokenVars, hashLog, threadVars, seedVars>>

NextPassword ==
    \/ CallHashPassword
    \/ CallVerifyPassword

SpecPassword == Init /\ [][NextPassword]_vars

-----------------------------------------------------------------------------
\* The concurrent specification: each thread makes one call into the module,
\* statement by statement, interleaved with the other threads' calls.

\* Any well-formed hash string, or a stored string that is no hash.
StoredHashes ==
    {hash_password(p, s) : p \in Passwords, s \in Salts} \cup {MalformedHash}

\* create_token is called directly; line 15 reads the clock.
ThreadCreateToken(t) ==
    /\ pc[t] = "idle"
    /\ \E sub \in Subjects, tt \in TokenTypes, d \in Deltas, now \in Nows :
         frame' = [frame EXCEPT ![t] =
                    [NoFrame EXCEPT !.op = "create_token", !.sub = sub,
                                    !.token_type = tt, !.expires_delta = d,
                                    !.now = now]]
    /\ pc' = [pc EXCEPT ![t] = "l16"]
    /\ UNCHANGED <<settings, tokenVars, passwordVars, seedVars>>

\* Line 20: create_access_token reads the access lifetime and calls create_token.
ThreadCreateAccessToken(t) ==
    /\ pc[t] = "idle"
    /\ \E sub \in Subjects :
         frame' = [frame EXCEPT ![t] =
                    [NoFrame EXCEPT !.op = "create_access_token", !.sub = sub,
                                    !.token_type = "access",
                                    !.expires_delta = AccessDelta]]
    /\ pc' = [pc EXCEPT ![t] = "l15"]
    /\ UNCHANGED <<settings, tokenVars, passwordVars, seedVars>>

\* Line 23: create_refresh_token reads the refresh lifetime and calls create_token.
ThreadCreateRefreshToken(t) ==
    /\ pc[t] = "idle"
    /\ \E sub \in Subjects :
         frame' = [frame EXCEPT ![t] =
                    [NoFrame EXCEPT !.op = "create_refresh_token", !.sub = sub,
                                    !.token_type = "refresh",
                                    !.expires_delta = RefreshDelta]]
    /\ pc' = [pc EXCEPT ![t] = "l15"]
    /\ UNCHANGED <<settings, tokenVars, passwordVars, seedVars>>

\* Line 15 of a create_token called by a wrapper: now = datetime.now(utc).
ThreadLine15(t) ==
    /\ pc[t] = "l15"
    /\ \E now \in Nows :
         frame' = [frame EXCEPT ![t].now = now]
    /\ pc' = [pc EXCEPT ![t] = "l16"]
    /\ UNCHANGED <<settings, tokenVars, passwordVars, seedVars>>

\* Mutant: the payload is a module-level dict shared by all calls.
ThreadLine16SharedPayload(t) ==
    /\ pc[t] = "l16"
    /\ frame' = [u \in Threads |->
                  [frame[u] EXCEPT !.payload =
                     [sub  |-> frame[t].sub,
                      type |-> frame[t].token_type,
                      iat  |-> int_timestamp(frame[t].now),
                      exp  |-> frame[t].now + frame[t].expires_delta]]]
    /\ pc' = [pc EXCEPT ![t] = "l17"]
    /\ UNCHANGED <<settings, tokenVars, passwordVars, seedVars>>

\* Line 16: the payload dict is built in a local.
ThreadLine16(t) ==
    /\ pc[t] = "l16"
    /\ frame' = [frame EXCEPT ![t].payload =
                  [sub  |-> frame[t].sub,
                   type |-> frame[t].token_type,
                   iat  |-> int_timestamp(frame[t].now),
                   exp  |-> frame[t].now + frame[t].expires_delta]]
    /\ pc' = [pc EXCEPT ![t] = "l17"]
    /\ UNCHANGED <<settings, tokenVars, passwordVars, seedVars>>

\* Line 17: the key and the algorithm are read, the payload is signed and the
\* call returns.
ThreadLine17(t) ==
    /\ pc[t] = "l17"
    /\ LET res == jwt_encode(frame[t].payload, settings.JWT_SECRET_KEY,
                             settings.JWT_ALG)
       IN  frame' = [frame EXCEPT ![t].raised = res.raised,
                                  ![t].token = res.token]
    /\ pc' = [pc EXCEPT ![t] = "done"]
    /\ UNCHANGED <<settings, tokenVars, passwordVars, seedVars>>

\* Line 9: hash_password draws a salt, hashes and returns.
ThreadHashPassword(t) ==
    /\ pc[t] = "idle"
    /\ \E password \in Passwords, salt \in Salts :
         frame' = [frame EXCEPT ![t] =
                    [NoFrame EXCEPT !.op = "hash_password",
                                    !.password = password, !.salt = salt,
                                    !.hashed = hash_password(password, salt)]]
    /\ pc' = [pc EXCEPT ![t] = "done"]
    /\ UNCHANGED <<settings, tokenVars, passwordVars, seedVars>>

\* Line 12: verify_password verifies and returns.
ThreadVerifyPassword(t) ==
    /\ pc[t] = "idle"
    /\ \E password \in Passwords, hashed \in StoredHashes :
         LET res == verify_password(password, hashed)
         IN  frame' = [frame EXCEPT ![t] =
                        [NoFrame EXCEPT !.op = "verify_password",
                                        !.password = password,
                                        !.hashed = hashed,
                                        !.raised = res.raised,
                                        !.value = res.value]]
    /\ pc' = [pc EXCEPT ![t] = "done"]
    /\ UNCHANGED <<settings, tokenVars, passwordVars, seedVars>>

NextThreads ==
    \E t \in Threads :
        \/ ThreadCreateToken(t)
        \/ ThreadCreateAccessToken(t)
        \/ ThreadCreateRefreshToken(t)
        \/ ThreadLine15(t)
        \/ ThreadLine16(t)
        \/ ThreadLine17(t)
        \/ ThreadHashPassword(t)
        \/ ThreadVerifyPassword(t)

SpecThreads == Init /\ [][NextThreads]_vars

-----------------------------------------------------------------------------
\* scripts/seed_admin.py: main, run after run against one database.

\* Rows of users other than the admin that the table may already hold.
OtherRows ==
    {[id |-> 1, email |-> "ana@local.com",
      hashed_password |-> hash_password("correct horse", 1),
      role |-> "user", is_active |-> TRUE],
     [id |-> 2, email |-> "bo@local.com",
      hashed_password |-> hash_password("correct horse", 1),
      role |-> "user", is_active |-> FALSE]}

\* The next value of the autoincrement primary key.
NextId(rows) ==
    IF rows = {} THEN 1
    ELSE 1 + (CHOOSE m \in {r.id : r \in rows} : \A r \in rows : r.id <= m)

RunRecord(outcome, adds, commits) ==
    [outcome |-> outcome, adds |-> adds, commits |-> commits]

InitSeed ==
    /\ settings \in SettingsDomain
    /\ NoCalls
    /\ DATABASE_URL \in {NoUrl, "postgresql+asyncpg://db/app"}
    /\ db \in SUBSET OtherRows
    /\ seed = SeedIdle
    /\ runLog = <<>>

\* Lines 16-20: a missing DATABASE_URL raises RuntimeError; otherwise the
\* engine and the session factory are created.
SeedStart ==
    /\ seed.pc = "idle"
    /\ Len(runLog) < MaxRuns
    /\ IF DATABASE_URL = NoUrl
       THEN /\ runLog' = Append(runLog, RunRecord("RuntimeError", 0, 0))
            /\ seed' = SeedIdle
       ELSE /\ seed' = [SeedIdle EXCEPT !.pc = "l23", !.engine = "open"]
            /\ UNCHANGED runLog
    /\ UNCHANGED <<settings, tokenVars, passwordVars, threadVars, DATABASE_URL, db>>

\* Mutant: the select has no where clause.
SeedQueryNoWhere ==
    /\ seed.pc = "l23"
    /\ IF Cardinality(db) > 1
       THEN /\ runLog' = Append(runLog, RunRecord("MultipleResultsFound",
                                                  seed.adds, seed.commits))
            /\ seed' = [SeedIdle EXCEPT !.engine = seed.engine]
       ELSE /\ seed' = [seed EXCEPT !.pc = "l25", !.exists = (db # {})]
            /\ UNCHANGED runLog
    /\ UNCHANGED <<settings, tokenVars, passwordVars, threadVars, DATABASE_URL, db>>

\* Lines 22-24: the session is opened and the user with ADMIN_EMAIL selected;
\* scalar_one_or_none raises when several rows match.
SeedQuery ==
    /\ seed.pc = "l23"
    /\ LET matching == {u \in db : u.email = ADMIN_EMAIL}
       IN  IF Cardinality(matching) > 1
           THEN /\ runLog' = Append(runLog, RunRecord("MultipleResultsFound",
                                                      seed.adds, seed.commits))
                /\ seed' = [SeedIdle EXCEPT !.engine = seed.engine]
           ELSE /\ seed' = [seed EXCEPT !.pc = "l25", !.exists = (matching # {})]
                /\ UNCHANGED runLog
    /\ UNCHANGED <<settings, tokenVars, passwordVars, threadVars, DATABASE_URL, db>>

\* Lines 25-27: the admin exists; main prints and returns inside the session
\* block, so the engine is not disposed.
SeedAlreadyExists ==
    /\ seed.pc = "l25"
    /\ seed.exists
    /\ runLog' = Append(runLog, RunRecord("exists", seed.adds, seed.commits))
    /\ seed' = [SeedIdle EXCEPT !.engine = seed.engine]
    /\ UNCHANGED <<settings, tokenVars, passwordVars, threadVars, DATABASE_URL, db>>

\* Lines 29-35: the admin user is built, its password hashed under a fresh
\* salt, and added to the session.
SeedAddUser ==
    /\ seed.pc = "l25"
    /\ ~seed.exists
    /\ \E salt \in Salts :
         seed' = [seed EXCEPT
                    !.pc = "l36",
                    !.adds = @ + 1,
                    !.pending = @ \cup
                        {[email |-> ADMIN_EMAIL,
                          hashed_password |-> hash_password(ADMIN_PASSWORD, salt),
                          role |-> "admin", is_active |-> TRUE]}]
    /\ UNCHANGED <<settings, tokenVars, passwordVars, threadVars, DATABASE_URL, db, runLog>>

\* Line 36: commit flushes the pending rows, each with the next primary key.
SeedCommit ==
    /\ seed.pc = "l36"
    /\ db' = db \cup
         {[id |-> NextId(db), email |-> u.email,
           hashed_password |-> u.hashed_password,
           role |-> u.role, is_active |-> u.is_active] : u \in seed.pending}
    /\ seed' = [seed EXCEPT !.pc = "l37", !.pending = {}, !.commits = @ + 1]
    /\ UNCHANGED <<settings, tokenVars, passwordVars, threadVars, DATABASE_URL, runLog>>

\* Lines 37-39: main prints, leaves the session block and disposes the engine.
SeedFinish ==
    /\ seed.pc = "l37"
    /\ runLog' = Append(runLog, RunRecord("created", seed.adds, seed.commits))
    /\ seed' = SeedIdle
    /\ UNCHANGED <<settings, tokenVars, passwordVars, threadVars, DATABASE_URL, db>>

NextSeed ==
    \/ SeedStart
    \/ SeedQuery
    \/ SeedAlreadyExists
    \/ SeedAddUser
    \/ SeedCommit
    \/ SeedFinish

SpecSeed == InitSeed /\ [][NextSeed]_vars

-----------------------------------------------------------------------------
\* Properties of token issuance.

Returned(c) == c.raised = "none"
Exp(c) == Claim(c.token[2], "exp")
Iat(c) == Claim(c.token[2], "iat")
TypeOf(c) == Claim(c.token[2], "type")

\* The lifetime, in seconds, configured for a token type.
PolicySeconds(tt) ==
    IF tt = "access" THEN settings.ACCESS_TOKEN_MINUTES * 60
                     ELSE settings.REFRESH_TOKEN_DAYS * 86400

\* C1: a token-issuing call made while the secret key is empty or missing
\* ends in an error and returns no token.
C1_EmptyKeyRaises ==
    \A c \in calls :
        settings.JWT_SECRET_KEY \in {NoKey, ""} =>
            /\ c.raised # "none"
            /\ c.token = NoToken

\* C2: every returned token has exp strictly greater than iat, whatever
\* expires_delta was passed.
C2_ExpAfterIat ==
    \A c \in calls : Returned(c) => Exp(c) > Iat(c)

\* C3: the access and the refresh token of one subject differ, and their
\* exp - iat are exactly the configured access and refresh durations, at any
\* sub-second instant of issue.
C3_AccessRefreshLifetimes ==
    \A a, r \in calls :
        ( /\ a.op = "create_access_token"
          /\ r.op = "create_refresh_token"
          /\ a.sub = r.sub
          /\ Returned(a) /\ Returned(r) ) =>
            /\ a.token # r.token
            /\ Exp(a) - Iat(a) = settings.ACCESS_TOKEN_MINUTES * 60
            /\ Exp(r) - Iat(r) = settings.REFRESH_TOKEN_DAYS * 86400

\* C3 witness: both wrappers returned a token for one subject, one of them
\* issued strictly inside a second.
C3_Witness ==
    \E a, r \in calls :
        /\ a.op = "create_access_token"
        /\ r.op = "create_refresh_token"
        /\ a.sub = r.sub
        /\ Returned(a) /\ Returned(r)
        /\ a.now % TicksPerSec # 0

-----------------------------------------------------------------------------
\* Properties of password hashing.

\* C6: verifying a password against a hash that hash_password returned for
\* that same password yields true.
C6_VerifyOwnHash ==
    \A v \in verifyLog, h \in hashLog :
        (v.hashed = h.hashed /\ v.password = h.password) =>
            (v.raised = "none" /\ v.value = TRUE)

\* C6 witness: a password was verified against its own hash, salted with a
\* salt other than the first.
C6_Witness ==
    \E v \in verifyLog, h \in hashLog :
        v.hashed = h.hashed /\ v.password = h.password /\ h.salt # 1

\* C7: verifying a password against the hash of a different password yields
\* false and raises nothing.
C7_VerifyOtherHash ==
    \A v \in verifyLog, h \in hashLog :
        (v.hashed = h.hashed /\ v.password # h.password) =>
            (v.raised = "none" /\ v.value = FALSE)

\* C7 witness: a password was verified against the hash of another password.
C7_Witness ==
    \E v \in verifyLog, h \in hashLog :
        v.hashed = h.hashed /\ v.password # h.password

-----------------------------------------------------------------------------
\* Properties of concurrent calls.

\* What a call returns when it runs alone: a function of its arguments, the
\* configuration and its own clock or salt reading.
ResultAlone(f) ==
    CASE f.op = "create_token" ->
            create_token(f.sub, f.token_type, f.expires_delta, f.now)
      [] f.op = "create_access_token" -> create_access_token(f.sub, f.now)
      [] f.op = "create_refresh_token" -> create_refresh_token(f.sub, f.now)
      [] f.op = "hash_password" ->
            [raised |-> "none", hashed |-> hash_password(f.password, f.salt)]
      [] f.op = "verify_password" -> verify_password(f.password, f.hashed)

\* The result a finished call returned.
ResultOf(f) ==
    CASE f.op \in {"create_token", "create_access_token", "create_refresh_token"} ->
            [raised |-> f.raised, token |-> f.token]
      [] f.op = "hash_password" -> [raised |-> f.raised, hashed |-> f.hashed]
      [] f.op = "verify_password" -> [raised |-> f.raised, value |-> f.value]

\* C9: in every interleaving, no step of any call changes the configuration,
\* and a call that returns returns what it would return alone.
C9_CallsIndependent ==
    [][ /\ settings' = settings
        /\ \A t \in Threads :
             (pc[t] # "done" /\ pc'[t] = "done") =>
                 ResultOf(frame'[t]) = ResultAlone(frame'[t]) ]_vars

\* C9 witness: a token-issuing call returned a token while another thread's
\* token-issuing call, for another subject, was between its statements.
C9_Witness ==
    \E t, u \in Threads :
        /\ pc[t] = "done" /\ frame[t].op = "create_access_token"
        /\ frame[t].raised = "none"
        /\ pc[u] = "l17" /\ frame[u].sub # frame[t].sub

-----------------------------------------------------------------------------
\* Properties of seeding.

AdminRows == {u \in db : u.email = ADMIN_EMAIL}

\* C10: between runs against a database, once a run has finished, the table
\* holds exactly one user with ADMIN_EMAIL, an active admin; the first run
\* added and committed it and every later run found it, added no user and
\* committed nothing.
C10_SeedIdempotent ==
    (DATABASE_URL # NoUrl /\ seed.pc = "idle" /\ Len(runLog) >= 1) =>
        /\ Cardinality(AdminRows) = 1
        /\ \A u \in AdminRows : u.role = "admin" /\ u.is_active
        /\ runLog[1] = RunRecord("created", 1, 1)
        /\ \A i \in 2..Len(runLog) : runLog[i] = RunRecord("exists", 0, 0)

\* C10 witness: three runs finished against a database that held other users.
C10_Witness ==
    /\ DATABASE_URL # NoUrl
    /\ seed.pc = "idle"
    /\ Len(runLog) = 3
    /\ db \ AdminRows # {}

====
